---- MODULE Spec2Model ----
(***************************************************************************)
(* HubSpot -> Node.js -> NetSuite bridge.                                  *)
(*                                                                         *)
(* The model follows the webhook route (app.post('/hubspot/webhook')),     *)
(* the variants of handleHubSpotEvent kept in the repository, and the      *)
(* NetSuite service (callNetSuite, createCustomerInNS, updateCustomerInNS, *)
(* createItemInNS, createSalesOrderInNS).  A step of the model is one      *)
(* synchronous run of JavaScript between two suspension points (awaits):   *)
(* the arrival of a network response followed by everything the code does  *)
(* until it awaits the next network call or returns.                       *)
(*                                                                         *)
(* Module-level constants of the code (HUBSPOT_TOKEN, CLOSED_WON_STAGE_ID) *)
(* are fixed for a whole behaviour.  Values the code reads from            *)
(* process.env at call time (RESTlet URLs, TBA credentials, the SKU        *)
(* property override) are inputs of the step that reads them.              *)
(*                                                                         *)
(* Spec explores webhook batches of every kind of event.  SpecRedelivery   *)
(* explores batches in which an event comes again and remembers the        *)
(* previous event of the batch (SpecLive: the same under fair scheduling). *)
(* SpecSigning explores RESTlet URLs with query strings,                   *)
(* SpecConcurrent two deliveries in flight at a time.                      *)
(* SpecV1 explores direct calls of the first version of the NetSuite       *)
(* service (the first half of netsuiteService.js).                         *)
(***************************************************************************)
EXTENDS Integers, Sequences, FiniteSets, TLC

\* ------------------------------------------------------------------ bounds

\* Longest webhook batch (req.body array) that is explored.
MaxBatch == 2

\* Longest line_items association set of a deal that is explored.
MaxLineItems == 2

\* ------------------------------------------------------- JavaScript values

\* The JavaScript value undefined, for string-valued fields.
Undefined == "<undefined>"

\* JavaScript truthiness of a string-or-undefined value.
Truthy(v) == v /= Undefined /\ v /= ""

\* ------------------------------------------------------- inbound events

\* A subscriptionType is undefined, a non-string (a number), or a string.
\* A string is written as its sequence of tokens: words and the separator ".".
SubUndefined == [t |-> "undefined", s |-> <<>>]
SubNumber == [t |-> "number", s |-> <<>>]
Str(tokens) == [t |-> "string", s |-> tokens]

SubscriptionTypes ==
    { SubUndefined, SubNumber, Str(<<>>),
      Str(<<"company">>), Str(<<"deal">>),
      Str(<<"ticket", ".", "creation">>),
      Str(<<"constructor", ".", "creation">>),
      Str(<<".", "creation">>),
      Str(<<"company", ".", "creation">>),
      Str(<<"company", ".", "propertyChange">>),
      Str(<<"company", ".", "creation", ".", "x">>),
      Str(<<"product", ".", "creation">>),
      Str(<<"product", ".", "propertyChange">>),
      Str(<<"contact", ".", "creation">>),
      Str(<<"contact", ".", "propertyChange">>),
      Str(<<"deal", ".", "creation">>),
      Str(<<"deal", ".", "propertyChange">>) }

ObjectIds == { Undefined, "", "42" }

\* The elements a webhook batch may hold: null, or an object with an
\* objectId and a subscriptionType (either may be missing).
NullEvent == [kind |-> "null", objectId |-> Undefined, subscriptionType |-> SubUndefined]

Events ==
    { NullEvent } \cup
    [kind : {"object"}, objectId : ObjectIds, subscriptionType : SubscriptionTypes]

\* String.prototype.split('.') on a token sequence: the parts between
\* separators, each part a word or the empty string.
RECURSIVE SplitFrom(_, _, _)
SplitFrom(tokens, i, cur) ==
    IF i > Len(tokens) THEN <<cur>>
    ELSE IF tokens[i] = "." THEN <<cur>> \o SplitFrom(tokens, i + 1, "")
    ELSE SplitFrom(tokens, i + 1, tokens[i])

Split(tokens) == SplitFrom(tokens, 1, "")

\* const [rawType, rawEvent] = subscriptionType.split('.')
RawType(sub) == Split(sub.s)[1]
RawEvent(sub) == IF Len(Split(sub.s)) >= 2 THEN Split(sub.s)[2] ELSE Undefined

\* ------------------------------------------------------- object type map

\* Fault injection: contacts are mapped onto the companies resource.
ObjectTypeMapContactAsCompany ==
    [company |-> "companies", deal |-> "deals", product |-> "products", contact |-> "companies"]

HUBSPOT_OBJECT_TYPE_MAP ==
    [company |-> "companies", deal |-> "deals", product |-> "products", contact |-> "contacts"]

\* Names every JavaScript object literal inherits from Object.prototype.
ObjectPrototypeKeys ==
    { "constructor", "toString", "valueOf", "hasOwnProperty", "isPrototypeOf",
      "propertyIsEnumerable", "toLocaleString", "__proto__" }

\* What a template literal makes of an inherited member (a function or object).
InheritedMember == "[inherited member of Object.prototype]"

\* HUBSPOT_OBJECT_TYPE_MAP[rawType]: an own key, else an inherited member,
\* else undefined.
MapLookup(rawType) ==
    IF rawType \in DOMAIN HUBSPOT_OBJECT_TYPE_MAP THEN HUBSPOT_OBJECT_TYPE_MAP[rawType]
    ELSE IF rawType \in ObjectPrototypeKeys THEN InheritedMember
    ELSE Undefined

\* ------------------------------------------------------- configuration

\* The copies of handleHubSpotEvent kept in the repository that read
\* { objectId, subscriptionType } from the event.
Variants == { "hubspotService", "part_001", "part_003", "part_004" }

\* process.env.HUBSPOT_CLOSED_WON_STAGE_ID || 'closedwon'
ClosedWonStageId(envValue) == IF Truthy(envValue) THEN envValue ELSE "closedwon"

\* The NetSuite token-based-authentication variables buildOAuthHeader reads.
CredentialNames ==
    { "NS_ACCOUNT_ID", "NS_CONSUMER_KEY", "NS_CONSUMER_SECRET", "NS_TOKEN_ID", "NS_TOKEN_SECRET" }

\* Environments explored: every credential set, one missing, or none set.
CredentialEnvs ==
    { CredentialNames, {} } \cup { CredentialNames \ {n} : n \in CredentialNames }

\* process.env[name] for a credential: its value (written as its name)
\* when it is set.
Credential(creds, name) == IF name \in creds THEN name ELSE Undefined

\* ------------------------------------------------------- state

VARIABLES
    scenario,             \* the inputs explored (see Clock, EnvReads)
    variant,              \* which copy of handleHubSpotEvent the route imports
    HUBSPOT_TOKEN,        \* process.env.HUBSPOT_ACCESS_TOKEN at module load
    CLOSED_WON_STAGE_ID,  \* the configured closed-won stage identifier
    chain                 \* per webhook delivery: the state of its call chain

vars == << scenario, variant, HUBSPOT_TOKEN, CLOSED_WON_STAGE_ID, chain >>

\* The webhook deliveries in flight: one, or two at a time ("concurrent").
Deliveries == IF scenario = "concurrent" THEN { 1, 2 } ELSE { 1 }

\* ------------------------------------------------------- scenarios
\* The inputs explored.  "webhook": every kind of event, deals of up to
\* MaxLineItems line items, one clock value.  "redelivery": batches of a few
\* events for one object, deals whose one company and one line item come from
\* the associations API, two clock values, and a record of the previous
\* event of the batch.
\* "signing": the events and deals of "redelivery", one clock value, and
\* RESTlet URLs with query strings.
\* "concurrent": two deliveries at a time, each of one event about company
\* or deal 41 or 42; the company and the line item of deal n are cn and ln.
\* "service_v1": direct calls of the first NetSuite service.

\* The scenarios of few events and of deals without embedded associations.
NarrowScenarios == { "redelivery", "signing", "concurrent" }

RedeliveryEvents ==
    { NullEvent } \cup
    [kind : {"object"}, objectId : {"42"},
     subscriptionType : { Str(<<"company", ".", "creation">>),
                          Str(<<"deal", ".", "creation">>),
                          Str(<<"deal", ".", "propertyChange">>) }]

ConcurrentEvents ==
    [kind : {"object"}, objectId : {"41", "42"},
     subscriptionType : { Str(<<"company", ".", "creation">>),
                          Str(<<"deal", ".", "creation">>) }]

\* The elements the next webhook batch may hold.
Inbound ==
    IF scenario = "concurrent" THEN ConcurrentEvents
    ELSE IF scenario \in NarrowScenarios THEN RedeliveryEvents
    ELSE Events

\* The lengths a webhook batch may have.
BatchLengths == IF scenario = "concurrent" THEN { 1 } ELSE 0..MaxBatch

\* ------------------------------------------------------- CRM records

NoAssoc == [present |-> FALSE, results |-> <<>>]
Assoc(ids) == [present |-> TRUE, results |-> ids]

CompanyIds == { "c1" }

\* The k-th line item id.
LineItemId(k) == "l" \o ToString(k)

SeqsUpTo(S, n) == UNION { [1..k -> S] : k \in 0..n }

\* Association sets of up to n line items, one for each pattern of repeated
\* ids: the first id is l1, and a new id is the next unused one.
LineItemSets(n) ==
    LET patterns == { p \in SeqsUpTo(1..n, n) :
                        \A i \in 1..Len(p) :
                           \/ p[i] = 1
                           \/ \E j \in 1..(i - 1) : p[j] >= p[i] - 1 }
    IN  { [i \in 1..Len(p) |-> LineItemId(p[i])] : p \in patterns }

\* The association sets a deal record may embed.
EmbeddedCompanies ==
    IF scenario \in NarrowScenarios THEN {} ELSE { Assoc(<<c>>) : c \in CompanyIds }

EmbeddedLineItems ==
    IF scenario \in NarrowScenarios THEN {}
    ELSE { Assoc(ids) : ids \in LineItemSets(MaxLineItems) \ {<<>>} }

\* Stage values a deal may be in: the default closed-won identifier and
\* another one (the closed-won identifier when the override names it).
DealStages == { "closedwon", "won7" }

\* A CRM record: { id, properties.dealstage, associations.companies,
\* associations.line_items }.
Record(id, stage, companies, lineItems) ==
    [id |-> id, dealstage |-> stage, companies |-> companies, line_items |-> lineItems]

\* The records a 2xx answer to a record fetch may carry.  Associations are
\* returned only when the request asked for them, and only when some exist.
CrmRecords(req) ==
    IF req.target[2] = "deals"
    THEN { Record(req.target[3], st, co, li) :
             st \in DealStages,
             co \in IF req.query.name = "associations"
                    THEN {NoAssoc} \cup EmbeddedCompanies
                    ELSE {NoAssoc},
             li \in IF req.query.name = "associations"
                    THEN {NoAssoc} \cup EmbeddedLineItems
                    ELSE {NoAssoc} }
    ELSE { Record(req.target[3], Undefined, NoAssoc, NoAssoc) }

\* The results a 2xx answer to an associations fetch may carry.
AssociationResults(toObjectType) ==
    IF scenario \in NarrowScenarios
    THEN { IF toObjectType = "companies" THEN <<"c1">> ELSE <<"l1">> }
    ELSE IF toObjectType = "companies"
    THEN SeqsUpTo(CompanyIds, 1)
    ELSE LineItemSets(MaxLineItems)

\* The results a 2xx answer to the associations request req may carry.
AssociationAnswers(req) ==
    IF scenario = "concurrent"
    THEN { << (IF req.target[3] = "companies" THEN "c" ELSE "l") \o req.target[2] >> }
    ELSE AssociationResults(req.target[3])

\* Properties of a line item record, as strings (Undefined when not set).
LineItemPropNames == { "item_sku", "hs_sku", "sku", "ns_item_id", "quantity", "price" }

Props(itemSku, hsSku, sku, nsItemId, quantity, price) ==
    [item_sku |-> itemSku, hs_sku |-> hsSku, sku |-> sku, ns_item_id |-> nsItemId,
     quantity |-> quantity, price |-> price]

LineItemProps ==
    { Props("A1", "H1", Undefined, Undefined, "2", "10"),
      Props("", Undefined, Undefined, "N1", "abc", Undefined) }

\* ------------------------------------------------------- requests

NoQuery == [name |-> "none", values |-> <<>>]
NoPayload == [kind |-> "none"]

CrmGet(target, query) ==
    [sys |-> "crm", method |-> "GET", target |-> target, query |-> query, body |-> NoPayload]

\* A request to a RESTlet with its Authorization header.
ErpRequest(method, endpoint, payload, authHeader) ==
    [sys |-> "erp", method |-> method, target |-> <<"restlet", endpoint>>,
     query |-> NoQuery, body |-> payload, Authorization |-> authHeader]

\* Math.floor(Date.now() / 1000) as read by a run.
Clock == IF scenario = "redelivery" THEN { 1000, 1001 } ELSE { 1000 }

\* The values a RESTlet URL variable may hold when it is set.
RestletUrls ==
    { "https://ns.example/restlet" }
    \cup (IF scenario \in { "signing", "service_v1" }
          THEN { "https://ns.example/restlet?script=1&deploy=2" } ELSE {})
    \cup (IF scenario = "signing"
          THEN { "https://ns.example/restlet?script=1&script=3",
                 "https://ns.example/restlet?script=1&oauth_nonce=abc&oauth_timestamp=1" }
          ELSE {})

\* What one synchronous run reads from its environment: the RESTlet URL of
\* the endpoint it dispatches to (if it dispatches), the credentials that
\* are set, HUBSPOT_ITEM_SKU_PROPERTY, and the clock.
EnvReads ==
    [url : {Undefined} \cup RestletUrls,
     creds : CredentialEnvs,
     skuProp : {Undefined, "ns_item_id"},
     now : Clock]

NoEvent == NullEvent

\* No event of the batch has been handled before this one.
NoPrevious ==
    [event |-> NoEvent, classified |-> FALSE, dealstage |-> Undefined,
     action |-> "none", erp |-> <<>>]

\* callNetSuite has not been called.
NoCall == [made |-> FALSE, url |-> Undefined, credentials |-> FALSE]

\* A delivery before its request has arrived.
IdleChain ==
    [delivery |-> 0,         \* which delivery this is (set at Init)
     pc |-> "idle",          \* where the call chain is suspended
     len |-> 0,              \* length of req.body
     idx |-> 0,              \* position of the for..of iterator
     processed |-> <<>>,     \* positions handed to handleHubSpotEvent, in order
     returned |-> 0,         \* calls of handleHubSpotEvent that have returned
     res |-> 0,              \* HTTP status sent (0: none yet)
     threw |-> FALSE,        \* an exception reached the route's catch
     someFailed |-> FALSE,   \* an earlier event of this batch ended in an error
     previous |-> NoPrevious, \* how the event before this one went ("redelivery")
     event |-> NoEvent,      \* the event being handled
     rawEvent |-> Undefined,
     apiObjectType |-> Undefined,
     record |-> Record(Undefined, Undefined, NoAssoc, NoAssoc),
     action |-> "none",      \* the NetSuite function the handler called
     outcome |-> "none",     \* how the handler ended for this event
     error |-> "none",       \* the exception raised while handling it
     try |-> "handler",      \* the try block around the pending await
     net |-> <<>>,           \* requests sent for this event, in order
     netFailure |-> "none",  \* the system ("crm", "erp") whose call failed
     nsCall |-> NoCall,      \* what callNetSuite found in process.env
     hubspotCompanyId |-> Undefined,
     lineItemIds |-> <<>>,
     lineItemIdx |-> 0,      \* line items the for..of loop has finished
     skuPropCandidates |-> <<>>,
     fetched |-> <<>>,       \* properties of the line items fetched so far
     lineItems |-> <<>>]

\* ------------------------------------------------------- leaving the handler

\* handleHubSpotEvent returns: its promise resolves, and the route's
\* `await handleHubSpotEvent(event)` will resume.
Return(c, outcome) ==
    [c EXCEPT !.pc = "handlerReturned", !.outcome = outcome, !.returned = @ + 1]

\* Fault injection: the handler's catch block rethrows to the route.
HandlerCatchRethrows(c) ==
    [c EXCEPT !.pc = "routeCatch", !.threw = TRUE, !.outcome = "failed"]

\* The catch block of handleHubSpotEvent: log, return.
HandlerCatch(c) == Return(c, "failed")

\* The catch block around convertQuoteToSalesOrder: log, then return.
ConvertCatch(c) == Return(c, "failed")

\* An exception raised inside the handler goes to the innermost try block.
Throw(c, err) ==
    IF c.try = "convert" THEN ConvertCatch([c EXCEPT !.error = err])
    ELSE HandlerCatch([c EXCEPT !.error = err])

\* The exceptions of the call chain.
TypeError == "TypeError"
TokenNotSet == "HUBSPOT_ACCESS_TOKEN is not set"
TbaNotSet == "NetSuite TBA environment variables are not fully set"
CrmError == "HubSpot request failed"
ErpError == "NetSuite request failed"

\* A CRM call is answered non-2xx (or not at all): axios rejects.
CrmFailure(c) == [c EXCEPT !.netFailure = "crm"]

\* An ERP call is answered non-2xx (or not at all): axios rejects.
ErpFailure(c) == [c EXCEPT !.netFailure = "erp"]

\* ------------------------------------------------------- NetSuite service

\* buildOAuthHeader's guard: every TBA variable is set.
CredentialsSet(creds) == CredentialNames \subseteq creds

\* crypto.randomBytes(16).toString('hex'): a string no other call returns,
\* written as the call that drew it (the delivery, the event's position in
\* the batch and the request's position among the event's requests).
RandomBytes(c) ==
    "nonce-" \o ToString(c.delivery) \o "-" \o ToString(c.idx) \o "-"
             \o ToString(Len(c.net) + 1)

\* createHmac('sha256', key).update(message).digest('base64'): a value that
\* stands for its key and message and for nothing else.
Hmac(key, message) == [key |-> key, message |-> message]

\* new URL(fullUrl): origin + pathname, and the search parameters in the
\* order they are written.
ParseUrl(fullUrl) ==
    CASE fullUrl = "https://ns.example/restlet" ->
           [base |-> "https://ns.example/restlet", searchParams |-> <<>>]
      [] fullUrl = "https://ns.example/restlet?script=1&deploy=2" ->
           [base |-> "https://ns.example/restlet",
            searchParams |-> << <<"script", "1">>, <<"deploy", "2">> >>]
      [] fullUrl = "https://ns.example/restlet?script=1&script=3" ->
           [base |-> "https://ns.example/restlet",
            searchParams |-> << <<"script", "1">>, <<"script", "3">> >>]
      [] fullUrl = "https://ns.example/restlet?script=1&oauth_nonce=abc&oauth_timestamp=1" ->
           [base |-> "https://ns.example/restlet",
            searchParams |-> << <<"script", "1">>, <<"oauth_nonce", "abc">>,
                                <<"oauth_timestamp", "1">> >>]

\* Object.fromEntries(url.searchParams): one property for each key, with the
\* value of its last occurrence.
FromEntries(entries) ==
    [key \in { entries[i][1] : i \in 1..Len(entries) } |->
        LET last == CHOOSE i \in 1..Len(entries) :
                       /\ entries[i][1] = key
                       /\ \A j \in (i + 1)..Len(entries) : entries[j][1] /= key
        IN  entries[last][2]]

\* { ...a, ...b }
Spread(a, b) ==
    [key \in DOMAIN a \cup DOMAIN b |-> IF key \in DOMAIN b THEN b[key] ELSE a[key]]

\* The parameter names that occur, in the order Array.prototype.sort gives
\* them (by UTF-16 code units).
SortOrder ==
    << "deploy", "oauth_consumer_key", "oauth_nonce", "oauth_signature_method",
       "oauth_timestamp", "oauth_token", "oauth_version", "script" >>

\* Object.keys(params).sort()
SortedKeys(params) == SelectSeq(SortOrder, LAMBDA key : key \in DOMAIN params)

\* encodeURIComponent: the reserved characters of a URL are escaped; names,
\* numbers and credentials are made of unreserved ones.
EncodeURIComponent(str) ==
    IF str = "https://ns.example/restlet" THEN "https%3A%2F%2Fns.example%2Frestlet"
    ELSE str

\* The key=value pairs of the signature base string, in sorted key order.
SortedParamString(params) ==
    LET keys == SortedKeys(params)
    IN  [i \in 1..Len(keys) |->
            << EncodeURIComponent(keys[i]), EncodeURIComponent(params[keys[i]]) >>]

\* The signature base string: method & URL without query & parameters.
BaseString(method, url, params) ==
    << method, EncodeURIComponent(url.base), SortedParamString(params) >>

\* The six OAuth parameters of a request.
OAuthParams(creds, timestamp, nonce) ==
    [oauth_consumer_key |-> Credential(creds, "NS_CONSUMER_KEY"),
     oauth_token |-> Credential(creds, "NS_TOKEN_ID"),
     oauth_signature_method |-> "HMAC-SHA256",
     oauth_timestamp |-> timestamp,
     oauth_nonce |-> nonce,
     oauth_version |-> "1.0"]

\* The Authorization header made of the OAuth parameters and the signature
\* of the base string under the two secrets.
OAuthHeader(creds, oauthParams, baseString) ==
    [realm |-> Credential(creds, "NS_ACCOUNT_ID"),
     params |-> oauthParams,
     oauth_signature |->
        Hmac(<<Credential(creds, "NS_CONSUMER_SECRET"), Credential(creds, "NS_TOKEN_SECRET")>>,
             baseString)]

\* Fault injection: the header is built for the first dispatch and kept.
BuildOAuthHeaderCached(c, method, fullUrl, env) ==
    LET oauthParams == OAuthParams(env.creds, "1000",
                                   RandomBytes([c EXCEPT !.idx = 1, !.net = <<>>]))
        url == ParseUrl(fullUrl)
    IN  OAuthHeader(env.creds, oauthParams,
                    BaseString(method, url,
                               Spread(oauthParams, FromEntries(url.searchParams))))

\* buildOAuthHeader past its guard: the signature covers the OAuth
\* parameters with the query parameters of the URL spread over them; the
\* header is written from the OAuth parameters.
BuildOAuthHeader(c, method, fullUrl, env) ==
    LET oauthParams == OAuthParams(env.creds, ToString(env.now), RandomBytes(c))
        url == ParseUrl(fullUrl)
        queryParams == FromEntries(url.searchParams)
        signatureParams == Spread(oauthParams, queryParams)
    IN  OAuthHeader(env.creds, oauthParams, BaseString(method, url, signatureParams))

\* Fault injection: a missing RESTlet URL is raised as an error.
CallNetSuiteThrowsWithoutUrl(c0, method, endpoint, payload, env) ==
    LET c == [c0 EXCEPT !.nsCall = [made |-> TRUE, url |-> env.url,
                                    credentials |-> env.creds = CredentialNames]]
    IN  IF ~Truthy(env.url) THEN Throw(c, "NetSuite RESTlet URL not set")
        ELSE IF ~CredentialsSet(env.creds) THEN Throw(c, TbaNotSet)
        ELSE [c EXCEPT !.pc = "awaitNetSuite",
                       !.net = Append(@, ErpRequest(method, endpoint, payload,
                                            BuildOAuthHeader(c, method, env.url, env)))]

\* Fault injection: the header is built, and the credentials checked, before
\* the URL is looked at.
CallNetSuiteBuildsHeaderFirst(c0, method, endpoint, payload, env) ==
    LET c == [c0 EXCEPT !.nsCall = [made |-> TRUE, url |-> env.url,
                                    credentials |-> env.creds = CredentialNames]]
    IN  IF ~CredentialsSet(env.creds) THEN Throw(c, TbaNotSet)
        ELSE IF ~Truthy(env.url) THEN Return(c, "disabled")
        ELSE [c EXCEPT !.pc = "awaitNetSuite",
                       !.net = Append(@, ErpRequest(method, endpoint, payload,
                                            BuildOAuthHeader(c, method, env.url, env)))]

\* callNetSuite up to its await: no URL, no call; credentials missing,
\* buildOAuthHeader throws; else the request is sent.
CallNetSuite(c0, method, endpoint, payload, env) ==
    LET c == [c0 EXCEPT !.nsCall = [made |-> TRUE, url |-> env.url,
                                    credentials |-> env.creds = CredentialNames]]
    IN  IF ~Truthy(env.url) THEN Return(c, "disabled")
        ELSE IF ~CredentialsSet(env.creds) THEN Throw(c, TbaNotSet)
        ELSE [c EXCEPT !.pc = "awaitNetSuite",
                       !.net = Append(@, ErpRequest(method, endpoint, payload,
                                            BuildOAuthHeader(c, method, env.url, env)))]

RecordPayload(record) == [kind |-> "hubspotRecord", hubspotRecord |-> record]

CreateCustomerInNS(c, company, env) ==
    CallNetSuite([c EXCEPT !.action = "createCustomerInNS"],
                 "POST", "NS_RESTLET_CUSTOMER_URL", RecordPayload(company), env)

\* Fault injection: the update is sent with POST, like the create.
UpdateCustomerInNSAsPost(c, company, env) ==
    CallNetSuite([c EXCEPT !.action = "updateCustomerInNS"],
                 "POST", "NS_RESTLET_CUSTOMER_URL", RecordPayload(company), env)

UpdateCustomerInNS(c, company, env) ==
    CallNetSuite([c EXCEPT !.action = "updateCustomerInNS"],
                 "PUT", "NS_RESTLET_CUSTOMER_URL", RecordPayload(company), env)

CreateItemInNS(c, product, env) ==
    CallNetSuite([c EXCEPT !.action = "createItemInNS"],
                 "POST", "NS_RESTLET_ITEM_URL", RecordPayload(product), env)

\* convertQuoteToSalesOrder(dealId): one signed POST to the RESTlet that
\* turns the deal's quote into a sales order.
ConvertQuoteToSalesOrder(c, dealId, env) ==
    CallNetSuite([c EXCEPT !.action = "convertQuoteToSalesOrder", !.try = "convert"],
                 "POST", "NS_RESTLET_CONVERT_URL",
                 [kind |-> "convert", hubspotDealId |-> dealId], env)

\* fetchDealAssociations up to its await.
FetchDealAssociations(c, dealId, toObjectType) ==
    IF ~Truthy(HUBSPOT_TOKEN) THEN Throw(c, TokenNotSet)
    ELSE [c EXCEPT
            !.pc = IF toObjectType = "companies" THEN "awaitCompanyAssoc" ELSE "awaitLineAssoc",
            !.net = Append(@, CrmGet(<<"associations", dealId, toObjectType>>,
                                     [name |-> "limit", values |-> <<"100">>]))]

\* Array.prototype.filter(Boolean) on a sequence of strings.
RECURSIVE FilterBoolean(_)
FilterBoolean(seq) ==
    IF seq = <<>> THEN <<>>
    ELSE (IF Truthy(Head(seq)) THEN <<Head(seq)>> ELSE <<>>) \o FilterBoolean(Tail(seq))

\* parseFloat on the strings that occur: a leading number, or NaN.
ParseFloat(str) ==
    CASE str = "0" -> [nan |-> FALSE, n |-> 0]
      [] str = "1" -> [nan |-> FALSE, n |-> 1]
      [] str = "2" -> [nan |-> FALSE, n |-> 2]
      [] str = "3" -> [nan |-> FALSE, n |-> 3]
      [] str = "10" -> [nan |-> FALSE, n |-> 10]
      [] OTHER -> [nan |-> TRUE, n |-> 0]

\* a || b on strings
Or(a, b) == IF Truthy(a) THEN a ELSE b

\* Fault injection: the candidate loop has no break, so the last candidate
\* property with a truthy value wins.
RECURSIVE FirstTruthyWithoutBreak(_, _)
FirstTruthyWithoutBreak(props, candidates) ==
    IF candidates = <<>> THEN Undefined
    ELSE IF Truthy(FirstTruthyWithoutBreak(props, Tail(candidates)))
    THEN FirstTruthyWithoutBreak(props, Tail(candidates))
    ELSE IF Truthy(props[Head(candidates)]) THEN props[Head(candidates)]
    ELSE Undefined

\* The first candidate property with a truthy value, else undefined.
RECURSIVE FirstTruthy(_, _)
FirstTruthy(props, candidates) ==
    IF candidates = <<>> THEN Undefined
    ELSE IF Truthy(props[Head(candidates)]) THEN props[Head(candidates)]
    ELSE FirstTruthy(props, Tail(candidates))

\* Fault injection: a line item without an item id takes its own id as a
\* placeholder.
LineItemEntryDefaultsItemId(lineItemId, props, candidates) ==
    LET quantity == ParseFloat(Or(props.quantity, "1"))
        rate == ParseFloat(Or(props.price, "0"))
    IN  [itemInternalId |-> Or(FirstTruthy(props, candidates), lineItemId),
         quantity |-> IF quantity.nan THEN 1 ELSE quantity.n,
         rate |-> IF rate.nan THEN [defined |-> FALSE, n |-> 0]
                  ELSE [defined |-> TRUE, n |-> rate.n],
         hubspotLineItemId |-> lineItemId]

\* The payload entry built from one fetched line item.
LineItemEntry(lineItemId, props, candidates) ==
    LET quantity == ParseFloat(Or(props.quantity, "1"))
        rate == ParseFloat(Or(props.price, "0"))
    IN  [itemInternalId |-> FirstTruthy(props, candidates),
         quantity |-> IF quantity.nan THEN 1 ELSE quantity.n,
         rate |-> IF rate.nan THEN [defined |-> FALSE, n |-> 0]
                  ELSE [defined |-> TRUE, n |-> rate.n],
         hubspotLineItemId |-> lineItemId]

\* Fault injection: lineItems is an array at module level, which every
\* delivery in flight pushes to.
OrderPayloadSharedLineItems(c) ==
    LET others == { e \in Deliveries : e /= c.delivery }
        shared == IF others = {} THEN <<>>
                  ELSE chain[CHOOSE e \in others : TRUE].lineItems
    IN  [kind |-> "order",
         hubspotDealId |-> c.record.id,
         hubspotCompanyId |-> c.hubspotCompanyId,
         lineItems |-> shared \o c.lineItems]

\* Fault injection: the payload lists the line items last first.
OrderPayloadReversed(c) ==
    [kind |-> "order",
     hubspotDealId |-> c.record.id,
     hubspotCompanyId |-> c.hubspotCompanyId,
     lineItems |-> [k \in 1..Len(c.lineItems) |-> c.lineItems[Len(c.lineItems) + 1 - k]]]

\* The payload createSalesOrderInNS sends.
OrderPayload(c) ==
    [kind |-> "order",
     hubspotDealId |-> c.record.id,
     hubspotCompanyId |-> c.hubspotCompanyId,
     lineItems |-> c.lineItems]

\* Fault injection: an order without line items is not sent.
LineItemLoopSuppressesEmptyOrder(c, env) ==
    IF c.lineItemIdx < Len(c.lineItemIds)
    THEN [c EXCEPT !.pc = "awaitLineItem",
                   !.net = Append(@, CrmGet(<<"objects", "line_items",
                                              c.lineItemIds[c.lineItemIdx + 1]>>,
                                            NoQuery))]
    ELSE IF c.lineItems = <<>> THEN Return(c, "skipped")
    ELSE CallNetSuite(c, "POST", "NS_RESTLET_SALESORDER_URL", OrderPayload(c), env)

\* The line item loop of createSalesOrderInNS from its head: fetch the next
\* line item, or after the last one send the payload.
LineItemLoop(c, env) ==
    IF c.lineItemIdx < Len(c.lineItemIds)
    THEN [c EXCEPT !.pc = "awaitLineItem",
                   !.net = Append(@, CrmGet(<<"objects", "line_items",
                                              c.lineItemIds[c.lineItemIdx + 1]>>,
                                            NoQuery))]
    ELSE CallNetSuite(c, "POST", "NS_RESTLET_SALESORDER_URL", OrderPayload(c), env)

\* Fault injection: the loop over the line item ids starts at the second.
ResolveLineItemsSkipsFirst(c, associationResults, env) ==
    LineItemLoop([c EXCEPT
                    !.lineItemIds = FilterBoolean(associationResults),
                    !.lineItemIdx = IF FilterBoolean(associationResults) = <<>> THEN 0 ELSE 1,
                    !.fetched = IF FilterBoolean(associationResults) = <<>> THEN <<>>
                                ELSE << [p \in LineItemPropNames |-> Undefined] >>,
                    !.skuPropCandidates =
                        FilterBoolean(<<"item_sku", "hs_sku", "sku", env.skuProp>>)],
                 env)

\* createSalesOrderInNS from the line item ids to the first line item fetch.
ResolveLineItems(c, associationResults, env) ==
    LineItemLoop([c EXCEPT
                    !.lineItemIds = FilterBoolean(associationResults),
                    !.lineItemIdx = 0,
                    !.skuPropCandidates =
                        FilterBoolean(<<"item_sku", "hs_sku", "sku", env.skuProp>>)],
                 env)

\* Fault injection: only the embedded line_items are used.
LineItemAssociationsEmbeddedOnly(c, env) ==
    LET embedded == IF c.record.line_items.present THEN c.record.line_items.results ELSE <<>>
    IN  ResolveLineItems(c, embedded, env)

\* createSalesOrderInNS, LINE ITEM ASSOCIATIONS: embedded results, else the
\* associations API.
LineItemAssociations(c, env) ==
    LET embedded == IF c.record.line_items.present THEN c.record.line_items.results ELSE <<>>
    IN  IF embedded = <<>>
        THEN FetchDealAssociations(c, c.record.id, "line_items")
        ELSE ResolveLineItems(c, embedded, env)

\* createSalesOrderInNS from its start to its first await.
CreateSalesOrderInNS(c, deal, env) ==
    LET c1 == [c EXCEPT !.action = "createSalesOrderInNS",
                        !.hubspotCompanyId = Undefined,
                        !.fetched = <<>>,
                        !.lineItems = <<>>]
        companies == deal.companies
    IN  IF ~Truthy(HUBSPOT_TOKEN) THEN Throw(c1, TokenNotSet)
        ELSE IF companies.present /\ companies.results /= <<>> /\ Truthy(companies.results[1])
        THEN LineItemAssociations([c1 EXCEPT !.hubspotCompanyId = companies.results[1]], env)
        ELSE FetchDealAssociations(c1, deal.id, "companies")

\* ------------------------------------------------------- HubSpot service

COMPANY_PROPERTIES == <<"name", "address", "address2", "city", "state", "zip", "country">>

INLINE_PROPERTIES ==
    <<"dealstage", "firstname", "lastname", "email", "phone", "name",
      "hs_product_id", "quantity", "amount">>

\* The URL fetchHubSpotRecord builds.
RecordUrl(apiObjectType, objectId) ==
    IF apiObjectType = "deals"
    THEN CrmGet(<<"objects", "deals", objectId>>,
                [name |-> "associations", values |-> <<"companies", "line_items">>])
    ELSE IF apiObjectType = "companies"
    THEN CrmGet(<<"objects", "companies", objectId>>,
                [name |-> "properties", values |-> COMPANY_PROPERTIES])
    ELSE CrmGet(<<"objects", apiObjectType, objectId>>, NoQuery)

\* The URL the older fetchHubSpotRecord builds: no property list for companies.
RecordUrlPart003(apiObjectType, objectId) ==
    IF apiObjectType = "deals"
    THEN CrmGet(<<"objects", "deals", objectId>>,
                [name |-> "associations", values |-> <<"companies", "line_items">>])
    ELSE CrmGet(<<"objects", apiObjectType, objectId>>, NoQuery)

\* fetchHubSpotRecord up to its await.
FetchHubSpotRecord(c, apiObjectType, objectId) ==
    IF ~Truthy(HUBSPOT_TOKEN) THEN Throw(c, TokenNotSet)
    ELSE [c EXCEPT !.pc = "awaitFetch",
                   !.net = Append(@, IF variant = "part_003"
                                     THEN RecordUrlPart003(apiObjectType, objectId)
                                     ELSE RecordUrl(apiObjectType, objectId))]

\* The inline axios.get of the part_004 handler: no token check, one fixed
\* property list for every object type.
InlineFetch(c, apiObjectType, objectId) ==
    [c EXCEPT !.pc = "awaitFetch",
              !.net = Append(@, CrmGet(<<"objects", apiObjectType, objectId>>,
                                       [name |-> "properties", values |-> INLINE_PROPERTIES]))]

\* The locals of the handler's call chain before it is entered and after it
\* has returned (none are kept from one event to the next).
Locals(c) ==
    [c EXCEPT !.event = NoEvent,
              !.rawEvent = Undefined,
              !.apiObjectType = Undefined,
              !.record = Record(Undefined, Undefined, NoAssoc, NoAssoc),
              !.action = "none",
              !.outcome = "none",
              !.error = "none",
              !.try = "handler",
              !.net = <<>>,
              !.netFailure = "none",
              !.nsCall = NoCall,
              !.hubspotCompanyId = Undefined,
              !.lineItemIds = <<>>,
              !.lineItemIdx = 0,
              !.skuPropCandidates = <<>>,
              !.fetched = <<>>,
              !.lineItems = <<>>]

\* Fault injection: only the notification key is checked.
MissingFieldKeyOnly(event) ==
    \/ event.subscriptionType.t = "undefined"
    \/ event.subscriptionType = Str(<<>>)

\* !objectId || !subscriptionType
MissingField(event) ==
    \/ ~Truthy(event.objectId)
    \/ event.subscriptionType.t = "undefined"
    \/ event.subscriptionType = Str(<<>>)

\* Fault injection: contacts are skipped before the record is fetched.
HandleHubSpotEventSkipsContactsEarly(c0, event) ==
    LET c == [Locals(c0) EXCEPT !.event = event]
        sub == event.subscriptionType
    IN  IF event.kind = "null" THEN Throw(c, TypeError)
        ELSE IF MissingField(event) THEN Return(c, "skipped")
        ELSE IF sub.t /= "string" THEN Throw(c, TypeError)
        ELSE LET apiObjectType == MapLookup(RawType(sub))
                 c1 == [c EXCEPT !.rawEvent = RawEvent(sub),
                                 !.apiObjectType = apiObjectType]
             IN  IF ~Truthy(apiObjectType) THEN Return(c1, "skipped")
                 ELSE IF apiObjectType = "contacts" THEN Return(c1, "skipped")
                 ELSE IF variant = "part_004"
                 THEN InlineFetch(c1, apiObjectType, event.objectId)
                 ELSE FetchHubSpotRecord(c1, apiObjectType, event.objectId)

\* handleHubSpotEvent from its entry to its first await: validation,
\* classification of the notification key, and the record fetch.
HandleHubSpotEvent(c0, event) ==
    LET c == [Locals(c0) EXCEPT !.event = event]
        sub == event.subscriptionType
    IN  IF event.kind = "null" THEN Throw(c, TypeError)    \* destructuring null
        ELSE IF MissingField(event) THEN Return(c, "skipped")
        ELSE IF sub.t /= "string" THEN Throw(c, TypeError) \* split is not a function
        ELSE LET apiObjectType == MapLookup(RawType(sub))
                 c1 == [c EXCEPT !.rawEvent = RawEvent(sub),
                                 !.apiObjectType = apiObjectType]
             IN  IF ~Truthy(apiObjectType) THEN Return(c1, "skipped")
                 ELSE IF variant = "part_004"
                 THEN InlineFetch(c1, apiObjectType, event.objectId)
                 ELSE FetchHubSpotRecord(c1, apiObjectType, event.objectId)

\* The switch of src/services/hubspotService.js.
SwitchHubspotService(c, record, env) ==
    CASE c.apiObjectType = "companies" ->
           IF c.rawEvent = "creation" THEN CreateCustomerInNS(c, record, env)
           ELSE UpdateCustomerInNS(c, record, env)
      [] c.apiObjectType = "products" -> CreateItemInNS(c, record, env)
      [] c.apiObjectType = "deals" ->
           IF c.rawEvent = "creation" THEN CreateSalesOrderInNS(c, record, env)
           ELSE Return(c, "skipped")
      [] OTHER -> Return(c, "skipped")

\* The switch of part_003: every deal event creates a sales order.
SwitchPart003(c, record, env) ==
    CASE c.apiObjectType = "companies" ->
           IF c.rawEvent = "creation" THEN CreateCustomerInNS(c, record, env)
           ELSE UpdateCustomerInNS(c, record, env)
      [] c.apiObjectType = "products" -> CreateItemInNS(c, record, env)
      [] c.apiObjectType = "deals" -> CreateSalesOrderInNS(c, record, env)
      [] OTHER -> Return(c, "skipped")

\* Fault injection: the closed-won test comes before the creation test.
DealLifecycleStageFirst(c, record, env) ==
    IF record.dealstage = CLOSED_WON_STAGE_ID
    THEN ConvertQuoteToSalesOrder(c, record.id, env)
    ELSE IF c.rawEvent = "creation" THEN CreateSalesOrderInNS(c, record, env)
    ELSE Return(c, "skipped")

\* The deals case of part_001 and part_004: quote on creation, conversion
\* when the current stage is the closed-won stage, else nothing.
DealLifecycle(c, record, env) ==
    IF c.rawEvent = "creation" THEN CreateSalesOrderInNS(c, record, env)
    ELSE IF record.dealstage = CLOSED_WON_STAGE_ID
    THEN ConvertQuoteToSalesOrder(c, record.id, env)
    ELSE Return(c, "skipped")

\* The switch of part_001.
SwitchPart001(c, record, env) ==
    CASE c.apiObjectType = "companies" ->
           IF c.rawEvent = "creation" THEN CreateCustomerInNS(c, record, env)
           ELSE UpdateCustomerInNS(c, record, env)
      [] c.apiObjectType = "contacts" -> Return(c, "skipped")
      [] c.apiObjectType = "products" -> CreateItemInNS(c, record, env)
      [] c.apiObjectType = "deals" -> DealLifecycle(c, record, env)
      [] OTHER -> Return(c, "skipped")

\* The switch of part_004 (inline fetch): products only on creation.
SwitchPart004(c, record, env) ==
    CASE c.apiObjectType = "companies" ->
           IF c.rawEvent = "creation" THEN CreateCustomerInNS(c, record, env)
           ELSE UpdateCustomerInNS(c, record, env)
      [] c.apiObjectType = "contacts" -> Return(c, "skipped")
      [] c.apiObjectType = "products" ->
           IF c.rawEvent = "creation" THEN CreateItemInNS(c, record, env)
           ELSE Return(c, "skipped")
      [] c.apiObjectType = "deals" -> DealLifecycle(c, record, env)
      [] OTHER -> Return(c, "skipped")

\* handleHubSpotEvent after the record fetch has answered 2xx.
Classify(c0, record, env) ==
    LET c == [c0 EXCEPT !.record = record]
    IN  CASE variant = "hubspotService" -> SwitchHubspotService(c, record, env)
          [] variant = "part_001" -> SwitchPart001(c, record, env)
          [] variant = "part_003" -> SwitchPart003(c, record, env)
          [] variant = "part_004" -> SwitchPart004(c, record, env)

\* ------------------------------------------------------- actions

Init ==
    /\ scenario = "webhook"
    /\ variant \in Variants
    /\ HUBSPOT_TOKEN \in { Undefined, "pat-token" }
    /\ CLOSED_WON_STAGE_ID \in
          IF variant \in { "part_001", "part_004" }
          THEN { ClosedWonStageId(v) : v \in { Undefined, "won7" } }
          ELSE { ClosedWonStageId(Undefined) }   \* never read by the other copies
    /\ chain = [d \in Deliveries |-> [IdleChain EXCEPT !.delivery = d]]

Step(d, c) ==
    /\ chain' = [chain EXCEPT ![d] = c]
    /\ UNCHANGED << scenario, variant, HUBSPOT_TOKEN, CLOSED_WON_STAGE_ID >>

\* A webhook request arrives: req.body is an array of len events, or a
\* value for..of cannot iterate.
ReceiveWebhook(d) ==
    /\ chain[d].pc = "idle"
    /\ \E iterable \in BOOLEAN, len \in BatchLengths :
          Step(d, IF iterable
                  THEN [chain[d] EXCEPT !.pc = "loop", !.len = len]
                  ELSE [chain[d] EXCEPT !.pc = "routeCatch", !.threw = TRUE])

\* The for..of loop takes the next element and calls handleHubSpotEvent.
NextEvent(d) ==
    /\ chain[d].pc = "loop"
    /\ chain[d].idx < chain[d].len
    /\ \E event \in Inbound :
          Step(d, HandleHubSpotEvent(
                     [chain[d] EXCEPT !.idx = @ + 1, !.processed = Append(@, chain[d].idx + 1)],
                     event))

\* The record fetch answers.
FetchReturn(d) ==
    /\ chain[d].pc = "awaitFetch"
    /\ \/ Step(d, Throw(CrmFailure(chain[d]), CrmError))
       \/ \E record \in CrmRecords(chain[d].net[Len(chain[d].net)]), env \in EnvReads :
             Step(d, Classify(chain[d], record, env))

\* The companies associations fetch answers.
CompanyAssocReturn(d) ==
    /\ chain[d].pc = "awaitCompanyAssoc"
    /\ \/ Step(d, Throw(CrmFailure(chain[d]), CrmError))
       \/ \E results \in AssociationAnswers(chain[d].net[Len(chain[d].net)]), env \in EnvReads :
             Step(d, LineItemAssociations(
                        [chain[d] EXCEPT !.hubspotCompanyId =
                            IF results /= <<>> THEN Or(results[1], Undefined) ELSE Undefined],
                        env))

\* The line_items associations fetch answers.
LineAssocReturn(d) ==
    /\ chain[d].pc = "awaitLineAssoc"
    /\ \/ Step(d, Throw(CrmFailure(chain[d]), CrmError))
       \/ \E results \in AssociationAnswers(chain[d].net[Len(chain[d].net)]), env \in EnvReads :
             Step(d, ResolveLineItems(chain[d], results, env))

\* Fault injection: a line item whose fetch failed is left out and the loop
\* goes on to the next one.
LineItemReturnSkipsFailure(d) ==
    /\ chain[d].pc = "awaitLineItem"
    /\ \/ \E env \in EnvReads :
             Step(d, LineItemLoop([CrmFailure(chain[d]) EXCEPT !.lineItemIdx = @ + 1], env))
       \/ \E props \in LineItemProps, env \in EnvReads :
             LET c == chain[d]
                 entry == LineItemEntry(c.lineItemIds[c.lineItemIdx + 1], props,
                                        c.skuPropCandidates)
             IN  Step(d, LineItemLoop(
                            [c EXCEPT !.lineItemIdx = @ + 1,
                                      !.fetched = Append(@, props),
                                      !.lineItems = IF Truthy(entry.itemInternalId)
                                                    THEN Append(@, entry) ELSE @],
                            env))

\* A line item fetch answers: map it, push it unless it has no item id,
\* and go round the loop.
LineItemReturn(d) ==
    /\ chain[d].pc = "awaitLineItem"
    /\ \/ Step(d, Throw(CrmFailure(chain[d]), CrmError))
       \/ \E props \in LineItemProps, env \in EnvReads :
             LET c == chain[d]
                 entry == LineItemEntry(c.lineItemIds[c.lineItemIdx + 1], props,
                                        c.skuPropCandidates)
             IN  Step(d, LineItemLoop(
                            [c EXCEPT !.lineItemIdx = @ + 1,
                                      !.fetched = Append(@, props),
                                      !.lineItems = IF Truthy(entry.itemInternalId)
                                                    THEN Append(@, entry) ELSE @],
                            env))

\* Fault injection: a failed RESTlet call is sent again.
NetSuiteReturnRetries(d) ==
    /\ chain[d].pc = "awaitNetSuite"
    /\ \/ Step(d, Return(chain[d], "sent"))
       \/ Step(d, [ErpFailure(chain[d]) EXCEPT
                      !.net = Append(@, chain[d].net[Len(chain[d].net)])])

\* The RESTlet answers: 2xx, or callNetSuite logs and rethrows.
NetSuiteReturn(d) ==
    /\ chain[d].pc = "awaitNetSuite"
    /\ \/ Step(d, Return(chain[d], "sent"))
       \/ Step(d, Throw(ErpFailure(chain[d]), ErpError))

\* Fault injection: the loop stops at the first event that ended in an error.
ResumeLoopStopsOnFailure(d) ==
    /\ chain[d].pc = "handlerReturned"
    /\ Step(d, IF chain[d].outcome = "failed"
               THEN [Locals(chain[d]) EXCEPT !.pc = "routeCatch", !.threw = TRUE]
               ELSE [Locals(chain[d]) EXCEPT !.pc = "loop"])

\* What is remembered of an event that has been handled: the event, the
\* stage its record showed, the NetSuite function called and the requests
\* sent to the ERP.
Summary(c) ==
    [event |-> c.event, classified |-> c.record.id /= Undefined,
     dealstage |-> c.record.dealstage, action |-> c.action,
     erp |-> SelectSeq(c.net, LAMBDA r : r.sys = "erp")]

\* The route's `await handleHubSpotEvent(event)` resumes; the handler's
\* locals are gone.
ResumeLoop(d) ==
    /\ chain[d].pc = "handlerReturned"
    /\ Step(d, [Locals(chain[d]) EXCEPT
                   !.pc = "loop",
                   !.someFailed = @ \/ chain[d].outcome = "failed",
                   !.previous = IF scenario = "redelivery" THEN Summary(chain[d]) ELSE @])

\* Fault injection: the status tells whether an event of the batch failed.
RespondReportsFailures(d) ==
    /\ chain[d].pc = "loop"
    /\ chain[d].idx = chain[d].len
    /\ Step(d, [chain[d] EXCEPT !.pc = "responded",
                                !.res = IF chain[d].someFailed THEN 500 ELSE 200])

\* The loop is over: res.status(200).send('ok').
Respond(d) ==
    /\ chain[d].pc = "loop"
    /\ chain[d].idx = chain[d].len
    /\ Step(d, [chain[d] EXCEPT !.pc = "responded", !.res = 200])

\* The route's catch: res.status(500).send('Error').
RouteCatch(d) ==
    /\ chain[d].pc = "routeCatch"
    /\ Step(d, [chain[d] EXCEPT !.pc = "responded", !.res = 500])

Next ==
    \E d \in Deliveries :
       \/ ReceiveWebhook(d)
       \/ NextEvent(d)
       \/ FetchReturn(d)
       \/ CompanyAssocReturn(d)
       \/ LineAssocReturn(d)
       \/ LineItemReturn(d)
       \/ NetSuiteReturn(d)
       \/ ResumeLoop(d)
       \/ Respond(d)
       \/ RouteCatch(d)

Spec == Init /\ [][Next]_vars

\* Batches in which an event may come again, with the previous event of the
\* batch remembered.
InitRedelivery ==
    /\ scenario = "redelivery"
    /\ variant \in Variants
    /\ HUBSPOT_TOKEN = "pat-token"
    /\ CLOSED_WON_STAGE_ID = ClosedWonStageId(Undefined)
    /\ chain = [d \in Deliveries |-> [IdleChain EXCEPT !.delivery = d]]

\* Every network call is answered or fails, and the event loop runs every
\* continuation that is ready: a step of a delivery that has arrived is
\* taken when it stays possible.  The arrival itself is up to the sender.
Progress ==
    \E d \in Deliveries :
       \/ NextEvent(d)
       \/ FetchReturn(d)
       \/ CompanyAssocReturn(d)
       \/ LineAssocReturn(d)
       \/ LineItemReturn(d)
       \/ NetSuiteReturn(d)
       \/ ResumeLoop(d)
       \/ Respond(d)
       \/ RouteCatch(d)

SpecRedelivery == InitRedelivery /\ [][Next]_vars

\* The batches of SpecRedelivery under that scheduling.
SpecLive == InitRedelivery /\ [][Next]_vars /\ WF_vars(Progress)

\* RESTlet URLs with query strings, under the service as deployed.
InitSigning ==
    /\ scenario = "signing"
    /\ variant = "hubspotService"
    /\ HUBSPOT_TOKEN = "pat-token"
    /\ CLOSED_WON_STAGE_ID = ClosedWonStageId(Undefined)
    /\ chain = [d \in Deliveries |-> [IdleChain EXCEPT !.delivery = d]]

SpecSigning == InitSigning /\ [][Next]_vars

\* Two deliveries handled at the same time by the service as deployed.
InitConcurrent ==
    /\ scenario = "concurrent"
    /\ variant = "hubspotService"
    /\ HUBSPOT_TOKEN = "pat-token"
    /\ CLOSED_WON_STAGE_ID = ClosedWonStageId(Undefined)
    /\ chain = [d \in Deliveries |-> [IdleChain EXCEPT !.delivery = d]]

SpecConcurrent == InitConcurrent /\ [][Next]_vars

\* ------------------------------------------------------- first NetSuite service
\* The first half of src/services/netsuiteService.js: an earlier version of
\* the service, with postToNetSuite, and with three exported functions that
\* each post { hubspotRecord } as it is.  Its exported functions are called
\* here directly, one call per chain.

\* buildOAuthHeader of the first version: no test of the credentials.
BuildOAuthHeaderV1(c, method, url, env) ==
    LET params == OAuthParams(env.creds, ToString(env.now), RandomBytes(c))
    IN  OAuthHeader(env.creds, params, BaseString(method, ParseUrl(url), params))

\* postToNetSuite up to its await: no URL, no call; else the header is built
\* and the request is sent.
PostToNetSuite(c0, endpoint, payload, env) ==
    LET c == [c0 EXCEPT !.nsCall = [made |-> TRUE, url |-> env.url,
                                    credentials |-> env.creds = CredentialNames]]
    IN  IF ~Truthy(env.url) THEN [c EXCEPT !.pc = "resolved", !.outcome = "disabled"]
        ELSE [c EXCEPT !.pc = "awaitPost",
                       !.net = Append(@, ErpRequest("POST", endpoint, payload,
                                            BuildOAuthHeaderV1(c, "POST", env.url, env)))]

CreateCustomerInNSV1(c, company, env) ==
    PostToNetSuite([c EXCEPT !.action = "createCustomerInNS", !.record = company],
                   "NS_RESTLET_CUSTOMER_URL", RecordPayload(company), env)

CreateItemInNSV1(c, product, env) ==
    PostToNetSuite([c EXCEPT !.action = "createItemInNS", !.record = product],
                   "NS_RESTLET_ITEM_URL", RecordPayload(product), env)

CreateSalesOrderInNSV1(c, deal, env) ==
    PostToNetSuite([c EXCEPT !.action = "createSalesOrderInNS", !.record = deal],
                   "NS_RESTLET_SALESORDER_URL", RecordPayload(deal), env)

\* The records the exported functions are called with.
PlainRecords == { Record("42", Undefined, NoAssoc, NoAssoc) }

DealRecords ==
    { Record("42", st, co, li) :
        st \in DealStages,
        co \in {NoAssoc} \cup { Assoc(<<c>>) : c \in CompanyIds },
        li \in {NoAssoc} \cup { Assoc(ids) : ids \in LineItemSets(MaxLineItems) \ {<<>>} } }

InitV1 ==
    /\ scenario = "service_v1"
    /\ variant = "part_002"            \* the handler that imports this version
    /\ HUBSPOT_TOKEN = Undefined        \* not read by this version
    /\ CLOSED_WON_STAGE_ID = ClosedWonStageId(Undefined)
    /\ chain = [d \in Deliveries |-> [IdleChain EXCEPT !.delivery = d]]

\* A caller calls createCustomerInNS.
CallCreateCustomerV1(d) ==
    /\ chain[d].pc = "idle"
    /\ \E company \in PlainRecords, env \in EnvReads :
          Step(d, CreateCustomerInNSV1(chain[d], company, env))

\* A caller calls createItemInNS.
CallCreateItemV1(d) ==
    /\ chain[d].pc = "idle"
    /\ \E product \in PlainRecords, env \in EnvReads :
          Step(d, CreateItemInNSV1(chain[d], product, env))

\* A caller calls createSalesOrderInNS.
CallCreateSalesOrderV1(d) ==
    /\ chain[d].pc = "idle"
    /\ \E deal \in DealRecords, env \in EnvReads :
          Step(d, CreateSalesOrderInNSV1(chain[d], deal, env))

\* The RESTlet answers: 2xx, or postToNetSuite logs and rethrows to its
\* caller.
PostReturnV1(d) ==
    /\ chain[d].pc = "awaitPost"
    /\ \/ Step(d, [chain[d] EXCEPT !.pc = "resolved", !.outcome = "sent"])
       \/ Step(d, [ErpFailure(chain[d]) EXCEPT !.pc = "rejected", !.error = ErpError,
                                              !.outcome = "failed"])

NextV1 ==
    \E d \in Deliveries :
       \/ CallCreateCustomerV1(d)
       \/ CallCreateItemV1(d)
       \/ CallCreateSalesOrderV1(d)
       \/ PostReturnV1(d)

SpecV1 == InitV1 /\ [][NextV1]_vars

\* ------------------------------------------------------- reading a state

\* The handler's locals are live: it is suspended at an await or has just
\* returned.
Handling(c) ==
    c.pc \in { "awaitFetch", "awaitCompanyAssoc", "awaitLineAssoc", "awaitLineItem",
               "awaitNetSuite", "handlerReturned" }

HasReturned(c) == c.pc = "handlerReturned"

\* The record fetch has answered 2xx and the switch has run.
Classified(c) == c.record.id /= Undefined

Range(seq) == { seq[i] : i \in 1..Len(seq) }

ErpRequests(c) == SelectSeq(c.net, LAMBDA r : r.sys = "erp")
CrmRequests(c) == SelectSeq(c.net, LAMBDA r : r.sys = "crm")

\* The event is an object that carries an objectId and a string key.
WellFormed(event) ==
    /\ event.kind = "object"
    /\ event.objectId \notin { Undefined, "" }
    /\ event.subscriptionType.t = "string"
    /\ event.subscriptionType.s /= <<>>

\* The event is well formed and its key reads rawType.rawEvent, or rawType
\* alone when rawEvent is Undefined.
KeyIs(c, rawType, rawEvent) ==
    /\ Handling(c)
    /\ WellFormed(c.event)
    /\ RawType(c.event.subscriptionType) = rawType
    /\ RawEvent(c.event.subscriptionType) = rawEvent

KeyTypeIs(c, rawType) ==
    /\ Handling(c)
    /\ WellFormed(c.event)
    /\ RawType(c.event.subscriptionType) = rawType

\* ------------------------------------------------------- claims

\* C1: an event whose objectId or subscriptionType is missing or empty ends
\* in Skip, and no request of any kind (CRM or ERP) is sent for it.
C1_MissingFieldSkipsWithoutNetwork ==
    \A d \in Deliveries :
       LET c == chain[d]
       IN  (/\ Handling(c)
            /\ c.event.kind = "object"
            /\ \/ c.event.objectId \in { Undefined, "" }
               \/ c.event.subscriptionType.t = "undefined"
               \/ c.event.subscriptionType = Str(<<>>))
           => /\ HasReturned(c)
              /\ c.outcome = "skipped"
              /\ c.action = "none"
              /\ c.net = <<>>

\* C1 witness: an event without objectId but with a mapped key has been
\* skipped.
C1_Witness ==
    \E d \in Deliveries :
       /\ HasReturned(chain[d])
       /\ chain[d].event.kind = "object"
       /\ chain[d].event.objectId = Undefined
       /\ chain[d].event.subscriptionType = Str(<<"company", ".", "creation">>)
       /\ chain[d].outcome = "skipped"

\* C2: an event whose raw object type is none of company, deal, product,
\* contact ends in Skip with no CRM fetch and no ERP dispatch.  (Fails: a raw
\* type naming a member inherited from Object.prototype is looked up as
\* truthy.)
C2_UnmappedTypeSkipsWithoutNetwork ==
    \A d \in Deliveries :
       LET c == chain[d]
       IN  (/\ Handling(c)
            /\ WellFormed(c.event)
            /\ RawType(c.event.subscriptionType)
                  \notin { "company", "deal", "product", "contact" })
           => /\ HasReturned(c)
              /\ c.outcome = "skipped"
              /\ c.net = <<>>

\* C3: an event whose key has no separator and no change kind is dropped: no
\* NetSuite function is called and nothing is sent to the ERP.  (Fails: the
\* key "company" is handled as a company update.)
C3_KeyWithoutChangeKindIsDropped ==
    \A d \in Deliveries :
       LET c == chain[d]
       IN  (/\ Handling(c)
            /\ WellFormed(c.event)
            /\ Len(Split(c.event.subscriptionType.s)) < 2)
           => /\ c.action = "none"
              /\ ErpRequests(c) = <<>>
              /\ HasReturned(c) => c.outcome \in { "skipped", "failed" }

\* C4: a deal.creation event whose record has been fetched calls
\* createSalesOrderInNS whatever the deal's stage is, never
\* convertQuoteToSalesOrder, and sends at most one request to the ERP, a POST
\* to the sales order endpoint.
C4_DealCreationCreatesQuote ==
    \A d \in Deliveries :
       LET c == chain[d]
       IN  KeyIs(c, "deal", "creation")
           => /\ c.action = IF Classified(c) THEN "createSalesOrderInNS" ELSE "none"
              /\ Len(ErpRequests(c)) <= 1
              /\ \A i \in 1..Len(ErpRequests(c)) :
                    /\ ErpRequests(c)[i].method = "POST"
                    /\ ErpRequests(c)[i].target = <<"restlet", "NS_RESTLET_SALESORDER_URL">>
              /\ c.outcome = "sent" => Len(ErpRequests(c)) = 1

\* C4 witness: a deal.creation event whose deal is already in the closed-won
\* stage has had its order sent.
C4_Witness ==
    \E d \in Deliveries :
       /\ KeyIs(chain[d], "deal", "creation")
       /\ chain[d].record.dealstage = CLOSED_WON_STAGE_ID
       /\ chain[d].action = "createSalesOrderInNS"
       /\ chain[d].outcome = "sent"

\* C5: a deal event that is not a creation calls convertQuoteToSalesOrder
\* when the fetched stage is the configured closed-won identifier, and
\* otherwise ends in Skip with nothing sent to the ERP.  (Fails: the handler
\* of hubspotService.js skips every such event, that of part_003 creates an
\* order for every one.)
C5_NonCreationDealFollowsStage ==
    \A d \in Deliveries :
       LET c == chain[d]
       IN  (/\ KeyTypeIs(c, "deal")
            /\ RawEvent(c.event.subscriptionType) /= "creation"
            /\ Classified(c))
           => IF c.record.dealstage = CLOSED_WON_STAGE_ID
              THEN c.action = "convertQuoteToSalesOrder"
              ELSE /\ c.action = "none"
                   /\ ErpRequests(c) = <<>>
                   /\ HasReturned(c) /\ c.outcome = "skipped"

\* C6: a company.creation event calls createCustomerInNS and any other
\* company event updateCustomerInNS; the event sends at most one request to
\* the ERP, exactly one once it has been sent, to the customer endpoint, with
\* POST for a creation and PUT otherwise.  Requests to the item and sales
\* order endpoints are always POST.
C6_CompanyUpsertMethod ==
    \A d \in Deliveries :
       LET c == chain[d]
           creation == RawEvent(c.event.subscriptionType) = "creation"
       IN  /\ KeyTypeIs(c, "company")
              => /\ c.action = IF ~Classified(c) THEN "none"
                               ELSE IF creation THEN "createCustomerInNS"
                               ELSE "updateCustomerInNS"
                 /\ Len(ErpRequests(c)) <= 1
                 /\ \A i \in 1..Len(ErpRequests(c)) :
                       /\ ErpRequests(c)[i].method = IF creation THEN "POST" ELSE "PUT"
                       /\ ErpRequests(c)[i].target = <<"restlet", "NS_RESTLET_CUSTOMER_URL">>
                 /\ c.outcome = "sent" => Len(ErpRequests(c)) = 1
           /\ \A i \in 1..Len(c.net) :
                 c.net[i].target \in { <<"restlet", "NS_RESTLET_ITEM_URL">>,
                                       <<"restlet", "NS_RESTLET_SALESORDER_URL">> }
                 => c.net[i].method = "POST"

\* C6 witness: a company.propertyChange event has had its PUT accepted.
C6_Witness ==
    \E d \in Deliveries :
       /\ KeyIs(chain[d], "company", "propertyChange")
       /\ chain[d].outcome = "sent"
       /\ Len(ErpRequests(chain[d])) = 1
       /\ ErpRequests(chain[d])[1].method = "PUT"

\* C7: a product.creation event calls createItemInNS; a product event of any
\* other change kind ends in Skip and sends nothing to the ERP.  (Fails: the
\* handler of hubspotService.js calls createItemInNS for every product
\* event.)
C7_ProductOnlyOnCreation ==
    \A d \in Deliveries :
       LET c == chain[d]
       IN  (KeyTypeIs(c, "product") /\ Classified(c))
           => IF RawEvent(c.event.subscriptionType) = "creation"
              THEN c.action = "createItemInNS"
              ELSE /\ c.action = "none"
                   /\ ErpRequests(c) = <<>>

\* C8: a contact event, whatever its change kind, calls no NetSuite function
\* and sends nothing to the ERP; once its record is fetched it ends in Skip.
C8_ContactNeverReachesErp ==
    \A d \in Deliveries :
       LET c == chain[d]
       IN  KeyTypeIs(c, "contact")
           => /\ c.action = "none"
              /\ ErpRequests(c) = <<>>
              /\ (HasReturned(c) /\ Classified(c)) => c.outcome = "skipped"
              /\ (HasReturned(c) /\ ~Classified(c)) => c.outcome = "failed"

\* C8 witness: a contact event has been skipped after its record was fetched.
C8_Witness ==
    \E d \in Deliveries :
       /\ KeyIs(chain[d], "contact", "propertyChange")
       /\ HasReturned(chain[d])
       /\ Classified(chain[d])
       /\ Len(CrmRequests(chain[d])) = 1
       /\ chain[d].outcome = "skipped"

\* C9: the elements of a batch are handed to the handler once each, in array
\* order; the route answers 200 only after every element's handler has
\* returned, and an error while handling an element never takes the route to
\* its catch block, which is reached only when the body cannot be iterated.
C9_BatchProcessedInOrder ==
    \A d \in Deliveries :
       LET c == chain[d]
       IN  /\ c.idx <= c.len
           /\ c.processed = [i \in 1..c.idx |-> i]
           /\ c.returned = IF Handling(c) /\ ~HasReturned(c) THEN c.idx - 1 ELSE c.idx
           /\ c.res = 200 => (c.idx = c.len /\ c.returned = c.len)
           /\ (c.pc = "routeCatch" \/ c.res = 500) => (c.idx = 0 /\ c.len = 0)

\* C9 witness: a batch of at least two elements has been answered 200 after
\* one of its elements ended in an error.
C9_Witness ==
    \E d \in Deliveries :
       /\ chain[d].res = 200
       /\ chain[d].len >= 2
       /\ chain[d].someFailed
       /\ Len(chain[d].processed) = chain[d].len

\* C10: no exception leaves handleHubSpotEvent: a malformed event (null, a
\* missing field, a key that is no string) returns without any request, and
\* every exception raised while handling an event, a failed CRM fetch or a
\* failed ERP dispatch included, ends in a returned handler with a failed
\* outcome.
C10_HandlerNeverThrows ==
    \A d \in Deliveries :
       LET c == chain[d]
       IN  /\ c.threw => c.returned = c.idx
           /\ c.threw => c.error = "none"
           /\ (Handling(c) /\ ~WellFormed(c.event))
              => (HasReturned(c) /\ c.net = <<>> /\ c.action = "none")
           /\ c.error /= "none" => (HasReturned(c) /\ c.outcome = "failed")
           /\ c.outcome = "failed" => c.error /= "none"

\* C10 witness: the customer upsert of a company creation was sent, the ERP
\* answered with an error, and the handler has returned with a failed outcome.
C10_Witness ==
    \E d \in Deliveries :
       /\ KeyIs(chain[d], "company", "creation")
       /\ chain[d].action = "createCustomerInNS"
       /\ ErpRequests(chain[d]) /= <<>>
       /\ chain[d].error = ErpError
       /\ HasReturned(chain[d])
       /\ chain[d].outcome = "failed"

\* C11: once a CRM call of an event has failed (the record fetch, an
\* associations fetch or a line item fetch), the handler has returned with a
\* failed outcome and no request has been sent to the ERP for that event,
\* whatever had been resolved before the failure.
C11_CrmFailureAbortsEvent ==
    \A d \in Deliveries :
       LET c == chain[d]
       IN  c.netFailure = "crm"
           => /\ ErpRequests(c) = <<>>
              /\ HasReturned(c)
              /\ c.outcome = "failed"
              /\ c.error = CrmError
              /\ c.net[Len(c.net)].sys = "crm"

\* C11 witness: the fetch of a deal's second line item failed after the first
\* one had been resolved into a payload entry.
C11_Witness ==
    \E d \in Deliveries :
       /\ chain[d].netFailure = "crm"
       /\ chain[d].action = "createSalesOrderInNS"
       /\ Len(chain[d].lineItems) = 1
       /\ chain[d].lineItemIdx = 1
       /\ Len(chain[d].lineItemIds) = 2
       /\ HasReturned(chain[d])

\* C12: when callNetSuite finds no RESTlet URL for the endpoint of the
\* action, whichever endpoint it is, it sends no request and raises nothing:
\* the handler has returned and the event has not failed.
C12_MissingUrlIsSoftNoOp ==
    \A d \in Deliveries :
       LET c == chain[d]
       IN  (c.nsCall.made /\ c.nsCall.url \in { Undefined, "" })
           => /\ ErpRequests(c) = <<>>
              /\ HasReturned(c)
              /\ c.error = "none"
              /\ c.outcome \notin { "failed", "sent" }
              /\ c.action \in { "createCustomerInNS", "updateCustomerInNS", "createItemInNS",
                               "createSalesOrderInNS", "convertQuoteToSalesOrder" }

\* C12 witness: the order of a deal whose line item was resolved was not
\* sent because the sales order URL is not set, and the handler returned.
C12_Witness ==
    \E d \in Deliveries :
       /\ chain[d].nsCall.made
       /\ chain[d].nsCall.url = Undefined
       /\ chain[d].action = "createSalesOrderInNS"
       /\ chain[d].lineItems /= <<>>
       /\ HasReturned(chain[d])
       /\ chain[d].outcome = "disabled"

\* C14: when the CRM bearer token is not set, no request is sent to the CRM
\* and none to the ERP for any event, and an event that needs a record ends
\* in the configuration error at once.  (Fails: the handler of part_004
\* fetches the record inline without looking at the token.)
C14_MissingTokenStopsEveryRequest ==
    \A d \in Deliveries :
       LET c == chain[d]
       IN  ~Truthy(HUBSPOT_TOKEN)
           => /\ c.net = <<>>
              /\ (Handling(c) /\ WellFormed(c.event) /\ Truthy(c.apiObjectType))
                 => (HasReturned(c) /\ c.error = TokenNotSet)

\* The positions of the line items fetched so far that have a non-empty
\* value in one of the candidate properties.
UsablePositions(c) ==
    SelectSeq([i \in 1..Len(c.fetched) |-> i],
              LAMBDA i : \E k \in 1..Len(c.skuPropCandidates) :
                            c.fetched[i][c.skuPropCandidates[k]] \notin { Undefined, "" })

\* C15: while an order is resolved and when it is sent, lineItems holds one
\* entry for each fetched line item that has a non-empty item id property,
\* and none for the others; the entry carries the line item's id and a
\* non-empty item id read from that line item, never a placeholder.
C15_LineItemIncludedIffResolvable ==
    \A d \in Deliveries :
       LET c == chain[d]
           usable == UsablePositions(c)
       IN  c.action = "createSalesOrderInNS"
           => /\ Len(c.fetched) = c.lineItemIdx
              /\ Len(c.lineItems) = Len(usable)
              /\ \A k \in 1..Len(c.lineItems) :
                    /\ k <= Len(usable)
                    /\ c.lineItems[k].hubspotLineItemId = c.lineItemIds[usable[k]]
                    /\ c.lineItems[k].itemInternalId \notin { Undefined, "" }
                    /\ c.lineItems[k].itemInternalId \in
                          { c.fetched[usable[k]][p] : p \in LineItemPropNames \ {"quantity", "price"} }
              /\ \A i \in 1..Len(ErpRequests(c)) :
                    ErpRequests(c)[i].body.lineItems = c.lineItems

\* C15 witness: an order was sent for a deal with two line items of which
\* only the second has an item id; its lineItems has that one entry.
C15_Witness ==
    \E d \in Deliveries :
       LET c == chain[d]
       IN  /\ c.action = "createSalesOrderInNS"
           /\ c.outcome = "sent"
           /\ c.lineItemIds = <<"l1", "l2">>
           /\ UsablePositions(c) = <<2>>
           /\ Len(ErpRequests(c)) = 1
           /\ Len(ErpRequests(c)[1].body.lineItems) = 1
           /\ ErpRequests(c)[1].body.lineItems[1].hubspotLineItemId = "l2"

\* C16: once the resolution of an order has gone through every line item
\* without an error, callNetSuite has been called with the payload as it is,
\* also when the company is missing or lineItems is empty: with the URL and
\* the credentials set, the request has been sent.
C16_DegeneratePayloadIsDispatched ==
    \A d \in Deliveries :
       LET c == chain[d]
       IN  (/\ c.action = "createSalesOrderInNS"
            /\ c.pc \in { "awaitNetSuite", "handlerReturned" }
            /\ c.error \notin { TokenNotSet, CrmError })
           => /\ c.nsCall.made
              /\ (Truthy(c.nsCall.url) /\ c.nsCall.credentials)
                 => /\ Len(ErpRequests(c)) = 1
                    /\ ErpRequests(c)[1].body =
                          [kind |-> "order", hubspotDealId |-> c.record.id,
                           hubspotCompanyId |-> c.hubspotCompanyId,
                           lineItems |-> c.lineItems]

\* C16 witness: an order without company and without line items has been
\* sent, one line item having been fetched and left out.
C16_Witness ==
    \E d \in Deliveries :
       LET c == chain[d]
       IN  /\ c.action = "createSalesOrderInNS"
           /\ Len(ErpRequests(c)) = 1
           /\ ErpRequests(c)[1].body.hubspotCompanyId = Undefined
           /\ ErpRequests(c)[1].body.lineItems = <<>>
           /\ Len(c.fetched) = 1

\* C17: an event sends at most one request to the ERP and it is the last
\* request of the event; once a call of the event has failed, the handler
\* has returned (nothing is pending, nothing is sent again) and the failed
\* call is the last request of the event.
C17_AtMostOneErpRequestNoRetry ==
    \A d \in Deliveries :
       LET c == chain[d]
       IN  /\ Len(ErpRequests(c)) <= 1
           /\ \A i \in 1..Len(c.net) : c.net[i].sys = "erp" => i = Len(c.net)
           /\ c.netFailure /= "none"
              => /\ HasReturned(c)
                 /\ c.outcome = "failed"
                 /\ c.net /= <<>>
                 /\ c.net[Len(c.net)].sys = c.netFailure

\* C17 witness: the order of a deal was answered with an error by the ERP
\* after its line item had been fetched, and the handler has returned.
C17_Witness ==
    \E d \in Deliveries :
       /\ chain[d].netFailure = "erp"
       /\ chain[d].action = "createSalesOrderInNS"
       /\ Len(chain[d].fetched) = 1
       /\ Len(ErpRequests(chain[d])) = 1
       /\ HasReturned(chain[d])

\* The associations requests of the event for one association type.
AssociationFetches(c, toObjectType) ==
    SelectSeq(c.net, LAMBDA r : r.sys = "crm" /\ r.target[1] = "associations"
                                /\ r.target[3] = toObjectType)

\* C20: in createSalesOrderInNS the associations of a type are fetched
\* separately exactly when the deal record carries none of that type
\* embedded, and at most once; a payload without company, or a resolution
\* without line item ids, is reached only after that fetch has answered.
C20_FallbackAssociationFetch ==
    \A d \in Deliveries :
       LET c == chain[d]
           companies == AssociationFetches(c, "companies")
           lines == AssociationFetches(c, "line_items")
           embeddedCompany == c.record.companies.present /\ c.record.companies.results /= <<>>
           embeddedLines == c.record.line_items.present /\ c.record.line_items.results /= <<>>
           pastCompanies == /\ c.pc /= "awaitCompanyAssoc"
                            /\ ~(c.netFailure = "crm" /\ c.net[Len(c.net)] \in Range(companies))
       IN  (c.action = "createSalesOrderInNS" /\ c.error /= TokenNotSet)
           => /\ Len(companies) = IF embeddedCompany THEN 0 ELSE 1
              /\ Len(lines) = IF pastCompanies /\ ~embeddedLines THEN 1 ELSE 0
              /\ (pastCompanies /\ c.hubspotCompanyId = Undefined) => Len(companies) = 1
              /\ (c.nsCall.made /\ c.lineItemIds = <<>>) => Len(lines) = 1
              /\ c.nsCall.made => pastCompanies

\* C20 witness: a deal record without embedded associations had both
\* association types fetched separately, both came back empty, and the order
\* went to callNetSuite without company and without line item ids.
C20_Witness ==
    \E d \in Deliveries :
       LET c == chain[d]
       IN  /\ c.action = "createSalesOrderInNS"
           /\ ~c.record.companies.present
           /\ ~c.record.line_items.present
           /\ Len(AssociationFetches(c, "companies")) = 1
           /\ Len(AssociationFetches(c, "line_items")) = 1
           /\ c.nsCall.made
           /\ c.hubspotCompanyId = Undefined
           /\ c.lineItemIds = <<>>

\* The credentials written into an Authorization header and those that key
\* its signature.
HeaderCredentials(header) ==
    { header.realm, header.params.oauth_consumer_key, header.params.oauth_token,
      header.oauth_signature.key[1], header.oauth_signature.key[2] }

\* C13: when one of the five TBA credentials is not set as callNetSuite (or
\* postToNetSuite) is about to send, the send ends in an error and no request
\* goes to the ERP; no request ever carries an Authorization header made
\* from a credential that is not set.  (Fails: buildOAuthHeader of the first
\* version of the service does not look at the credentials.)
C13_MissingCredentialFailsBeforeSend ==
    \A d \in Deliveries :
       LET c == chain[d]
       IN  /\ (c.nsCall.made /\ Truthy(c.nsCall.url) /\ ~c.nsCall.credentials)
              => /\ ErpRequests(c) = <<>>
                 /\ c.error = TbaNotSet
           /\ \A i \in 1..Len(ErpRequests(c)) :
                 \A v \in HeaderCredentials(ErpRequests(c)[i].Authorization) :
                    v \notin { Undefined, "" }

\* C18: every request to the ERP carries a header built for it: its nonce is
\* the one drawn during its own dispatch, its timestamp was read from the
\* clock, and its signature is computed over these.  No header, nonce or
\* signature of a request equals that of a request of the previous event,
\* also when method, URL and payload are the same.
C18_HeaderBuiltAnewForEachDispatch ==
    \A d \in Deliveries :
       LET c == chain[d]
       IN  \A i \in 1..Len(c.net) :
              c.net[i].sys = "erp"
              => LET header == c.net[i].Authorization
                 IN  /\ header.params.oauth_nonce =
                           "nonce-" \o ToString(d) \o "-" \o ToString(c.idx) \o "-" \o ToString(i)
                     /\ header.params.oauth_timestamp \in { ToString(now) : now \in Clock }
                     /\ \A key \in DOMAIN header.params :
                           << key, header.params[key] >>
                              \in Range(header.oauth_signature.message[3])
                     /\ \A k \in 1..Len(c.previous.erp) :
                           LET before == c.previous.erp[k].Authorization
                           IN  /\ header /= before
                               /\ header.params.oauth_nonce /= before.params.oauth_nonce
                               /\ header.oauth_signature /= before.oauth_signature

\* C18 witness: two events in a row sent the same method, URL and payload
\* to the ERP within the same second.
C18_Witness ==
    \E d \in Deliveries :
       LET c == chain[d]
       IN  /\ Len(c.previous.erp) = 1
           /\ Len(ErpRequests(c)) = 1
           /\ ErpRequests(c)[1].method = c.previous.erp[1].method
           /\ ErpRequests(c)[1].target = c.previous.erp[1].target
           /\ ErpRequests(c)[1].body = c.previous.erp[1].body
           /\ ErpRequests(c)[1].Authorization.oauth_signature.message[2]
                 = c.previous.erp[1].Authorization.oauth_signature.message[2]
           /\ ErpRequests(c)[1].Authorization.params.oauth_timestamp
                 = c.previous.erp[1].Authorization.params.oauth_timestamp

\* The event being handled is the previous event of the batch come again,
\* and both had their record fetched.
Redelivered(c) ==
    /\ Handling(c)
    /\ c.previous.event = c.event
    /\ c.previous.classified
    /\ c.record.id /= Undefined

\* C19: nothing is kept from one event to the next and nothing is
\* deduplicated: an event that comes again and sees the same stage gets the
\* same NetSuite function called again, and two non-creation events of a
\* deal that both see the closed-won stage both call
\* convertQuoteToSalesOrder.  (Fails: the handler of hubspotService.js calls
\* nothing for a non-creation deal event, see C5.)
C19_NoStateBetweenEvents ==
    \A d \in Deliveries :
       LET c == chain[d]
       IN  /\ (c.pc = "loop" \/ c.pc = "responded")
              => (c.action = "none" /\ c.net = <<>> /\ c.record.id = Undefined)
           /\ (Redelivered(c) /\ c.previous.dealstage = c.record.dealstage)
              => c.action = c.previous.action
           /\ (/\ Redelivered(c)
               /\ RawType(c.event.subscriptionType) = "deal"
               /\ RawEvent(c.event.subscriptionType) /= "creation"
               /\ c.previous.dealstage = CLOSED_WON_STAGE_ID
               /\ c.record.dealstage = CLOSED_WON_STAGE_ID)
              => /\ c.previous.action = "convertQuoteToSalesOrder"
                 /\ c.action = "convertQuoteToSalesOrder"

\* The line item record fetches and the catalog item (product) fetches of the
\* event in hand, in the order sent.
LineItemFetches(c) ==
    SelectSeq(c.net, LAMBDA r : r.sys = "crm" /\ r.target[1] = "objects"
                                /\ r.target[2] = "line_items")

CatalogItemFetches(c) ==
    SelectSeq(c.net, LAMBDA r : r.sys = "crm" /\ r.target[1] = "objects"
                                /\ r.target[2] = "products")

C23_QuantityDefaultsRateAbsent ==
    \A d \in Deliveries :
       LET c == chain[d]
           usable == UsablePositions(c)
           missing(v) == v \in { Undefined, "" }
       IN  c.action = "createSalesOrderInNS"
           => \A k \in 1..Len(c.lineItems) :
                 LET props == c.fetched[usable[k]]
                 IN  /\ c.lineItems[k].quantity =
                           IF missing(props.quantity) \/ ParseFloat(props.quantity).nan
                           THEN 1 ELSE ParseFloat(props.quantity).n
                     /\ c.lineItems[k].rate.defined =
                           ~(missing(props.price) \/ ParseFloat(props.price).nan)
                     /\ c.lineItems[k].rate.defined
                           => c.lineItems[k].rate.n = ParseFloat(props.price).n

\* C24: the line items of the payload are in the order of the association
\* set (the embedded one when the deal record has one): they are the
\* resolvable ones among its ids, each as often and where the set has it.
C24_LineItemsKeepAssociationOrder ==
    \A d \in Deliveries :
       LET c == chain[d]
           usable == UsablePositions(c)
           inOrder == [k \in 1..Len(usable) |-> c.lineItemIds[usable[k]]]
           ids(lineItems) == [k \in 1..Len(lineItems) |-> lineItems[k].hubspotLineItemId]
       IN  c.action = "createSalesOrderInNS"
           => /\ (c.fetched /= <<>> /\ c.record.line_items.results /= <<>>)
                 => c.lineItemIds = c.record.line_items.results
              /\ ids(c.lineItems) = inOrder
              /\ \A i \in 1..Len(ErpRequests(c)) :
                    ids(ErpRequests(c)[i].body.lineItems) = inOrder
              /\ c.nsCall.made => Len(c.fetched) = Len(c.lineItemIds)

\* C24 witness: a deal record embedding the line items l1, l2 had both
\* resolved, and the order that was sent lists l1 before l2.
C24_Witness ==
    \E d \in Deliveries :
       LET c == chain[d]
       IN  /\ c.action = "createSalesOrderInNS"
           /\ c.outcome = "sent"
           /\ c.record.line_items.results = << "l1", "l2" >>
           /\ Len(ErpRequests(c)) = 1
           /\ Len(ErpRequests(c)[1].body.lineItems) = 2
           /\ ErpRequests(c)[1].body.lineItems[1].hubspotLineItemId = "l1"
           /\ ErpRequests(c)[1].body.lineItems[2].hubspotLineItemId = "l2"

\* C26: the record fetch of a company event asks for exactly the properties
\* name, address, address2, city, state, zip, country, never for none and
\* never for another list.  (Fails: fetchHubSpotRecord of part_003 asks for
\* no properties, and the inline fetch of part_004 for another list.)
C26_CompanyFetchNamesAllowList ==
    \A d \in Deliveries :
       LET c == chain[d]
       IN  \A i \in 1..Len(c.net) :
              (c.net[i].sys = "crm" /\ c.net[i].target[1] = "objects"
                 /\ c.net[i].target[2] = "companies")
              => c.net[i].query =
                    [name |-> "properties",
                     values |-> << "name", "address", "address2", "city", "state", "zip",
                                   "country" >>]

\* The fetches of the record the event in hand is about.
RecordFetches(c) ==
    SelectSeq(c.net, LAMBDA r : r.sys = "crm"
                                /\ r.target = << "objects", c.apiObjectType, c.event.objectId >>)

\* C28: an event that passes validation and has a mapped object type has its
\* record fetched once, before anything else: no action is chosen, no ERP
\* call made and no Skip reached until that fetch has answered, contacts and
\* deal events that end in Skip included, and when the fetch fails the event
\* fails.  (The one event without a request is the one whose fetch raises the
\* missing-token error before sending.)
C28_OneRecordFetchBeforeAction ==
    \A d \in Deliveries :
       LET c == chain[d]
           fetches == RecordFetches(c)
       IN  (Handling(c) /\ WellFormed(c.event) /\ Truthy(c.apiObjectType))
           => /\ Len(fetches) <= 1
              /\ Len(fetches) = 0
                 => (c.net = <<>> /\ c.error = TokenNotSet /\ c.outcome = "failed"
                     /\ c.action = "none")
              /\ Len(fetches) = 1 => c.net[1] = fetches[1]
              /\ (c.action /= "none" \/ c.nsCall.made \/ Len(c.net) > 1) => Classified(c)
              /\ c.outcome \in { "skipped", "sent", "disabled" } => Classified(c)
              /\ (c.netFailure = "crm" /\ Len(c.net) = 1)
                 => (HasReturned(c) /\ c.outcome = "failed" /\ c.action = "none"
                     /\ ~Classified(c))

\* C28 witness: the record fetch of a contact event failed, and the event,
\* which would have been skipped, ended in an error.
C28_Witness ==
    \E d \in Deliveries :
       LET c == chain[d]
       IN  /\ KeyTypeIs(c, "contact")
           /\ Len(RecordFetches(c)) = 1
           /\ c.netFailure = "crm"
           /\ HasReturned(c)
           /\ c.outcome = "failed"

\* C29: callNetSuite looks at the RESTlet URL before the credentials: without
\* a URL the call is a soft no-op whether or not the credentials are set, and
\* the missing-credentials error is raised only with a URL configured.
C29_UrlCheckPrecedesCredentialCheck ==
    \A d \in Deliveries :
       LET c == chain[d]
       IN  /\ (c.nsCall.made /\ ~Truthy(c.nsCall.url))
              => /\ HasReturned(c)
                 /\ c.outcome = "disabled"
                 /\ c.error = "none"
           /\ c.error = TbaNotSet
              => /\ c.nsCall.made
                 /\ Truthy(c.nsCall.url)
                 /\ ~c.nsCall.credentials

\* C29 witness: a company was not sent because the customer URL is not set,
\* with credentials missing as well, and no error was raised.
C29_Witness ==
    \E d \in Deliveries :
       LET c == chain[d]
       IN  /\ c.action = "createCustomerInNS"
           /\ c.nsCall.made
           /\ ~Truthy(c.nsCall.url)
           /\ ~c.nsCall.credentials
           /\ c.outcome = "disabled"
           /\ c.error = "none"

\* The names of the six OAuth parameters.
OAuthParameterNames ==
    { "oauth_consumer_key", "oauth_token", "oauth_signature_method", "oauth_timestamp",
      "oauth_nonce", "oauth_version" }

\* The position of a parameter name in sorted order.
SortPosition(key) == CHOOSE i \in 1..Len(SortOrder) : SortOrder[i] = key

\* C25: the parameters of the signature base string of a request are the six
\* OAuth parameters together with every query parameter of the RESTlet URL,
\* in sorted key order, and the URL of the base string is the RESTlet URL
\* without its query string.  (Fails: the first version of the service signs
\* the six OAuth parameters alone.)
C25_SignatureCoversQueryParameters ==
    \A d \in Deliveries :
       LET c == chain[d]
       IN  \A i \in 1..Len(ErpRequests(c)) :
              LET baseString == ErpRequests(c)[i].Authorization.oauth_signature.message
                  params == baseString[3]
                  query == ParseUrl(c.nsCall.url).searchParams
              IN  /\ baseString[2] = "https%3A%2F%2Fns.example%2Frestlet"
                  /\ \A key \in OAuthParameterNames : \E j \in 1..Len(params) : params[j][1] = key
                  /\ \A q \in 1..Len(query) : query[q] \in Range(params)
                  /\ \A j \in 1..Len(params) :
                        params[j][1] \in OAuthParameterNames \/ params[j] \in Range(query)
                  /\ \A j, k \in 1..Len(params) :
                        j < k => SortPosition(params[j][1]) <= SortPosition(params[k][1])

\* C30: whatever the query string of the RESTlet URL, each OAuth parameter
\* written into the Authorization header of a request is in the signature
\* base string of that request with the same value, and with no other.
\* (Fails: a query parameter named like an OAuth parameter takes its place in
\* the base string, and the header still carries the generated value.)
C30_HeaderMatchesSignedParameters ==
    \A d \in Deliveries :
       LET c == chain[d]
       IN  \A i \in 1..Len(ErpRequests(c)) :
              LET header == ErpRequests(c)[i].Authorization
                  params == header.oauth_signature.message[3]
              IN  \A key \in OAuthParameterNames :
                     /\ \E j \in 1..Len(params) : params[j][1] = key
                     /\ \A j \in 1..Len(params) :
                           params[j][1] = key => params[j][2] = header.params[key]

\* The requests, by target, that an event sends when it is handled alone and
\* nothing fails: for a deal the record, its companies, its line items, the
\* one line item and the order; for a company the record and the customer.
TargetsAlone(event) ==
    IF RawType(event.subscriptionType) = "deal"
    THEN << << "objects", "deals", event.objectId >>,
            << "associations", event.objectId, "companies" >>,
            << "associations", event.objectId, "line_items" >>,
            << "objects", "line_items", "l" \o event.objectId >>,
            << "restlet", "NS_RESTLET_SALESORDER_URL" >> >>
    ELSE << << "objects", "companies", event.objectId >>,
            << "restlet", "NS_RESTLET_CUSTOMER_URL" >> >>

\* C27: with two deliveries in flight and their steps interleaved in every
\* way, the requests of each are those it sends alone, in the same order,
\* and every id in them is of its own event: the record, the company and the
\* line items of an order are those of its own deal, and the nonce is one
\* drawn by its own call chain.
C27_DeliveriesDoNotMix ==
    \A d \in Deliveries :
       LET c == chain[d]
           id == c.event.objectId
       IN  Handling(c)
           => /\ [i \in 1..Len(c.net) |-> c.net[i].target]
                    = SubSeq(TargetsAlone(c.event), 1, Len(c.net))
              /\ \A i \in 1..Len(c.net) :
                    LET r == c.net[i]
                    IN  r.sys = "erp"
                        => /\ r.Authorization.params.oauth_nonce =
                                 "nonce-" \o ToString(d) \o "-1-" \o ToString(i)
                           /\ r.body.kind = "hubspotRecord" => r.body.hubspotRecord.id = id
                           /\ r.body.kind = "order"
                              => /\ r.body.hubspotDealId = id
                                 /\ r.body.hubspotCompanyId = "c" \o id
                                 /\ Len(r.body.lineItems) <= 1
                                 /\ \A k \in 1..Len(r.body.lineItems) :
                                       r.body.lineItems[k].hubspotLineItemId = "l" \o id
              /\ (Classified(c) => c.record.id = id)
              /\ (c.hubspotCompanyId /= Undefined => c.hubspotCompanyId = "c" \o id)
              /\ \A k \in 1..Len(c.lineItemIds) : c.lineItemIds[k] = "l" \o id

\* C27 witness: the orders of deal 41 and of deal 42, each with its line
\* item, are both awaiting the ERP: the two call chains ran interleaved.
C27_Witness ==
    /\ Deliveries = { 1, 2 }
    /\ chain[1].pc = "awaitNetSuite"
    /\ chain[2].pc = "awaitNetSuite"
    /\ chain[1].event.objectId = "41"
    /\ chain[2].event.objectId = "42"
    /\ chain[1].action = "createSalesOrderInNS"
    /\ chain[2].action = "createSalesOrderInNS"
    /\ chain[1].lineItems /= <<>>
    /\ chain[2].lineItems /= <<>>

\* What holds of a delivery whose response has been sent: the chain is over;
\* 200 was sent with every element of the batch handed to the handler and
\* returned from it, whether or not some failed; 500 was sent with the
\* for..of having raised before any element was taken.
ResponseInOrder(c) ==
    /\ c.res \in { 0, 200, 500 }
    /\ c.res /= 0 <=> c.pc = "responded"
    /\ c.res = 200
       => /\ ~c.threw
          /\ c.idx = c.len
          /\ c.returned = c.len
          /\ c.processed = [i \in 1..c.len |-> i]
    /\ c.res = 500
       => /\ c.threw
          /\ c.processed = <<>>
          /\ c.returned = 0

\* C31: with every network call answered or failed, a delivery that has
\* arrived is answered, and answered once: with 200 after the last element
\* of the batch has been handled, however many failed, and with 500 only
\* when the body could not be iterated; once sent, the response stays.
C31_DeliveryIsAnsweredOnce ==
    /\ [](\A d \in { 1 } : ResponseInOrder(chain[d]))
    /\ [][\A d \in { 1 } : chain[d].res /= 0 => chain'[d] = chain[d]]_vars
    /\ (chain[1].pc /= "idle") ~> (chain[1].res /= 0)

\* C31 witness: 200 was sent for a batch of two events of which one failed.
C31_Witness ==
    \E d \in Deliveries :
       /\ chain[d].res = 200
       /\ chain[d].len = 2
       /\ chain[d].returned = 2
       /\ chain[d].someFailed

====
